---- MODULE Spec2Model ----
(***************************************************************************)
(* Model of the PDF catalog extraction pipeline of src/main.py:            *)
(*   - the heuristic text parser (parse_text_block_to_products and the     *)
(*     regular expressions it uses), as operators over character sequences *)
(*   - the per-page image extraction and spatial association of            *)
(*     extract_data_from_pdf                                               *)
(*   - the per-document pipeline and the orchestrator loop of main         *)
(* A Python str is a sequence of one-character strings; Optional[T] is a   *)
(* sequence of length <= 1 (<<>> is None, <<v>> is the value v).           *)
(***************************************************************************)
EXTENDS Integers, Sequences, FiniteSets, TLC

VARIABLES
    \* ---- orchestrator (main / extract_data_from_pdf) ----
    pc,          \* position of main: "scan", "next", "page", "emit", "report", "done"
    pdf_files,   \* the list produced by the input scan
    idx,         \* index in pdf_files of the document being processed (0 before the first)
    open_docs,   \* indices of the documents whose handle is open
    num_pages,   \* len(doc) of the current document
    page_num,    \* number of pages of the current document already processed
    all_rows,    \* rows accumulated for the current document
    outcome,     \* what extract_data_from_pdf gave for the current document
    printed,     \* the lines printed so far
    files,       \* table files on disk: path -> index of the document that wrote it
    attempts,    \* table write attempts of the run, in order
    \* ---- parser harness ----
    text,        \* the text segment given to parse_text_block_to_products
    parsed,      \* FALSE until the parser has run
    rows,        \* the list the parser returned
    \* ---- page harness ----
    page_in,     \* the page given to the page step
    page_done,   \* FALSE until the page step has run
    page_out     \* the result of the page step

vars == <<pc, pdf_files, idx, open_docs, num_pages, page_num, all_rows, outcome,
          printed, files, attempts, text, parsed, rows, page_in, page_done, page_out>>

orch_vars == <<pc, pdf_files, idx, open_docs, num_pages, page_num, all_rows, outcome,
               printed, files, attempts>>
parse_vars == <<text, parsed, rows>>
page_vars == <<page_in, page_done, page_out>>

-----------------------------------------------------------------------------
(* Characters and Python str helpers                                       *)

Rupee == "₹"
NoChar == ""

Digits == {"0", "1", "2", "3", "4", "5", "6", "7", "8", "9"}
LowerSeq == <<"a", "b", "c", "d", "e", "f", "g", "h", "i", "j", "k", "l", "m",
              "n", "o", "p", "q", "r", "s", "t", "u", "v", "w", "x", "y", "z">>
UpperSeq == <<"A", "B", "C", "D", "E", "F", "G", "H", "I", "J", "K", "L", "M",
              "N", "O", "P", "Q", "R", "S", "T", "U", "V", "W", "X", "Y", "Z">>
LowerSet == {LowerSeq[i] : i \in DOMAIN LowerSeq}
UpperSet == {UpperSeq[i] : i \in DOMAIN UpperSeq}
Letters == LowerSet \cup UpperSet
\* \s of the re module, restricted to the characters of the model's alphabet
Whitespace == {" ", "\t", "\n"}
\* \w of the re module, restricted to the characters of the model's alphabet
WordChars == Letters \cup Digits \cup {"_"}

LowerMap == [c \in UpperSet |-> LowerSeq[CHOOSE i \in DOMAIN UpperSeq : UpperSeq[i] = c]]
UpperMap == [c \in LowerSet |-> UpperSeq[CHOOSE i \in DOMAIN LowerSeq : LowerSeq[i] = c]]
Lower(c) == IF c \in UpperSet THEN LowerMap[c] ELSE c
Upper(c) == IF c \in LowerSet THEN UpperMap[c] ELSE c

Min(a, b) == IF a <= b THEN a ELSE b

\* the least / greatest index at which the Boolean sequence f is TRUE, 0 when none
FirstTrue(f) ==
    IF \E i \in DOMAIN f : f[i]
    THEN CHOOSE i \in DOMAIN f : f[i] /\ \A j \in DOMAIN f : j < i => ~f[j]
    ELSE 0
LastTrue(f) ==
    IF \E i \in DOMAIN f : f[i]
    THEN CHOOSE i \in DOMAIN f : f[i] /\ \A j \in DOMAIN f : j > i => ~f[j]
    ELSE 0

\* s[i] of a str, NoChar outside it
At(s, i) == IF i >= 1 /\ i <= Len(s) THEN s[i] ELSE NoChar

\* s[:n]
Take(s, n) == SubSeq(s, 1, Min(n, Len(s)))

\* str.upper() / str.replace(ch, '')
UpperStr(s) == [i \in DOMAIN s |-> Upper(s[i])]
RemoveChar(s, ch) == SelectSeq(s, LAMBDA c : c # ch)

\* str.strip(chars)
Slice(s, lo, hi) == IF lo = 0 THEN <<>> ELSE SubSeq(s, lo, hi)
StripChars(s, chars) ==
    Slice(s, FirstTrue([i \in DOMAIN s |-> s[i] \notin chars]),
             LastTrue([i \in DOMAIN s |-> s[i] \notin chars]))

\* str.strip()
Strip(s) == StripChars(s, Whitespace)

\* word matches s at index i, ignoring case (word is given in lower case)
MatchesAtCI(s, i, word) ==
    /\ i >= 1
    /\ i + Len(word) - 1 <= Len(s)
    /\ \A k \in DOMAIN word : Lower(s[i + k - 1]) = word[k]

\* re.search of a literal under (?i)
ContainsCI(s, word) == \E i \in 1..Len(s) : MatchesAtCI(s, i, word)

\* the index after the longest run of characters of `cls` starting at i
RunEnd(s, i, cls) ==
    CHOOSE k \in i..(Len(s) + 1) :
        /\ \A m \in i..(k - 1) : s[m] \in cls
        /\ At(s, k) \notin cls

\* sep.join(parts)
RECURSIVE Join(_, _)
Join(parts, sep) ==
    IF parts = <<>> THEN <<>>
    ELSE IF Len(parts) = 1 THEN parts[1]
    ELSE parts[1] \o sep \o Join(Tail(parts), sep)

\* the index of the first line break of s at or after i, Len(s) + 1 when none
LineEnd(s, i) ==
    CHOOSE k \in i..(Len(s) + 1) :
        /\ \A m \in i..(k - 1) : s[m] # "\n"
        /\ At(s, k) \in {"\n", NoChar}

\* str.splitlines(), for the line break of the model's alphabet
RECURSIVE SplitFrom(_, _)
SplitPiece(s, i, j) == <<SubSeq(s, i, j - 1)>> \o SplitFrom(s, j + 1)
SplitFrom(s, i) == IF i > Len(s) THEN <<>> ELSE SplitPiece(s, i, LineEnd(s, i))

splitlines(s) == SplitFrom(s, 1)

-----------------------------------------------------------------------------
(* PRICE_RE and _normalize_price_str                                       *)

NoMatch == <<>>

\* ,[0-9]{3} at i
CommaGroupAt(s, i) ==
    /\ At(s, i) = ","
    /\ At(s, i + 1) \in Digits
    /\ At(s, i + 2) \in Digits
    /\ At(s, i + 3) \in Digits

\* (?:,[0-9]{3})* at d, greedy: the number of groups taken
CommaGroups(s, d) ==
    CHOOSE n \in 0..Len(s) :
        /\ \A t \in 0..(n - 1) : CommaGroupAt(s, d + 4 * t)
        /\ ~CommaGroupAt(s, d + 4 * n)

\* (?:\.[0-9]+)? at i, greedy: the index after it
DecimalEnd(s, i) ==
    IF At(s, i) = "." /\ At(s, i + 1) \in Digits THEN RunEnd(s, i + 1, Digits) ELSE i

\* (?:,[0-9]{3})*(?:\.[0-9]+)? at d: the index after it
GroupsAndDecimalEnd(s, d) == DecimalEnd(s, d + 4 * CommaGroups(s, d))

\* first alternative of group 2: [0-9]{1,3}(?:,[0-9]{3})*(?:\.[0-9]+)?
\* the index after the match at k, 0 when it does not match
NumberAlt1End(s, k) ==
    IF At(s, k) \notin Digits THEN 0
    ELSE GroupsAndDecimalEnd(s, Min(RunEnd(s, k, Digits), k + 3))

\* second alternative of group 2: [0-9]+(?:\.[0-9]+)?
NumberAlt2End(s, k) ==
    IF At(s, k) \notin Digits THEN 0
    ELSE DecimalEnd(s, RunEnd(s, k, Digits))

\* a | b where nothing follows: the first alternative that matches
FirstAlternative(a, b) == IF a # 0 THEN a ELSE b

\* group 2: the alternatives are tried in order
NumberEnd(s, k) == FirstAlternative(NumberAlt1End(s, k), NumberAlt2End(s, k))

\* group 1 at i, (₹|rs\.?|inr)?: the lengths it can take, in the order the
\* matcher tries them (greedy first, 0 last: the group does not take part)
CurrencyLens(s, i) ==
    IF At(s, i) = Rupee THEN <<1, 0>>
    ELSE IF MatchesAtCI(s, i, <<"r", "s">>)
         THEN IF At(s, i + 2) = "." THEN <<3, 2, 0>> ELSE <<2, 0>>
    ELSE IF MatchesAtCI(s, i, <<"i", "n", "r">>) THEN <<3, 0>>
    ELSE <<0>>

\* the match for the first way of taking group 1 that lets group 2 match:
\* nums[n] is where \s* ends after the n-th way, ends[n] where group 2 ends (0: no match)
PriceMatchPick(i, lens, nums, n) ==
    IF n = 0 THEN NoMatch
    ELSE <<[start |-> i, cur |-> lens[n], num |-> nums[n][1], end |-> nums[n][2]]>>

PriceMatchTry(i, lens, nums) ==
    PriceMatchPick(i, lens, nums, FirstTrue([n \in DOMAIN nums |-> nums[n][2] # 0]))

\* \s*(group 2) at j: <<start of group 2, index after it or 0>>
SpacesThenNumber(s, k) == <<k, NumberEnd(s, k)>>

PriceMatchWith(s, i, lens) ==
    PriceMatchTry(i, lens,
        [n \in DOMAIN lens |-> SpacesThenNumber(s, RunEnd(s, i + lens[n], Whitespace))])

\* PRICE_RE.match at index i: <<[start, cur, num, end]>> (cur: length of group 1,
\* num: start of group 2, end: index after the match) or NoMatch
PriceMatchAt(s, i) == PriceMatchWith(s, i, CurrencyLens(s, i))

\* the matches of PRICE_RE at every index of s
PriceMatches(s) == [i \in DOMAIN s |-> PriceMatchAt(s, i)]

\* the leftmost of the matches ms that starts at or after `from`
LeftmostAt(ms, k) == IF k = 0 THEN NoMatch ELSE ms[k]
LeftmostFrom(ms, from) ==
    LeftmostAt(ms, FirstTrue([i \in DOMAIN ms |-> i >= from /\ ms[i] # NoMatch]))

\* PRICE_RE.search(s)
PRICE_RE_search(s) == LeftmostFrom(PriceMatches(s), 1)

\* PRICE_RE.sub('', s): s without its successive leftmost matches
RECURSIVE PriceSubFrom(_, _, _)
PriceSubCut(s, ms, from, m) ==
    IF m = NoMatch THEN SubSeq(s, from, Len(s))
    ELSE SubSeq(s, from, m[1].start - 1) \o PriceSubFrom(s, ms, m[1].end)
PriceSubFrom(s, ms, from) == PriceSubCut(s, ms, from, LeftmostFrom(ms, from))

PRICE_RE_sub(s) == PriceSubFrom(s, PriceMatches(s), 1)

DigitVal(c) == CHOOSE v \in 0..9 : <<"0", "1", "2", "3", "4", "5", "6", "7", "8", "9">>[v + 1] = c

RECURSIVE DigitsVal(_)
DigitsVal(ds) ==
    IF ds = <<>> THEN 0
    ELSE 10 * DigitsVal(SubSeq(ds, 1, Len(ds) - 1)) + DigitVal(ds[Len(ds)])

\* the decimal with integer digits int_part and fraction digits frac, as
\* [n, e] for the value n / 10^e with e as small as possible
DecimalOf(int_part, frac, sig) ==
    [n |-> DigitsVal(int_part \o SubSeq(frac, 1, sig)), e |-> sig]

FloatOfParts(raw, ip, int_part, frac) ==
    IF /\ \A i \in DOMAIN frac : frac[i] \in Digits
       /\ Len(int_part) + Len(frac) >= 1
       /\ (ip <= Len(raw) => raw[ip] = ".")
    THEN <<DecimalOf(int_part, frac, LastTrue([i \in DOMAIN frac |-> frac[i] # "0"]))>>
    ELSE <<>>

FloatSplit(raw, ip) ==
    FloatOfParts(raw, ip, SubSeq(raw, 1, ip - 1), SubSeq(raw, ip + 1, Len(raw)))

\* float(raw), for the strings of the model's alphabet: <<value>>, or <<>>
\* when float raises (raw is not digits with an optional decimal part)
ParseFloat(raw) == FloatSplit(raw, RunEnd(raw, 1, Digits))

\* lines 40-46: the result for a match m of PRICE_RE
NormalizeMatch(s, m) ==
    <<IF m.cur > 0
      THEN <<RemoveChar(UpperStr(SubSeq(s, m.start, m.start + m.cur - 1)), ".")>>
      ELSE <<>>,
      ParseFloat(RemoveChar(SubSeq(s, m.num, m.end - 1), ","))>>

NormalizeSearch(s, m) == IF m = NoMatch THEN <<<<>>, <<>>>> ELSE NormalizeMatch(s, m[1])

\* _normalize_price_str: <<currency, price>>, both Optional
_normalize_price_str(s) == NormalizeSearch(s, PRICE_RE_search(s))

-----------------------------------------------------------------------------
(* SKU_RE, POSSIBLE_UNIT_RE and the name heuristics                        *)

SkuLabels == << <<"s", "k", "u">>,
                <<"i", "t", "e", "m", " ", "c", "o", "d", "e">>,
                <<"c", "o", "d", "e">>,
                <<"m", "o", "d", "e", "l">> >>

\* [:\s-]
SkuSepChars == Whitespace \cup {":", "-"}
\* [A-Z0-9] and [A-Z0-9\-_/] under (?i)
SkuFirstChars == Letters \cup Digits
SkuRestChars == Letters \cup Digits \cup {"-", "_", "/"}

\* ([A-Z0-9][A-Z0-9\-_/]{2,}) at k, greedy: the index after it, 0 when it does not match
SkuTokenEnd(s, k) ==
    IF At(s, k) \in SkuFirstChars /\ RunEnd(s, k + 1, SkuRestChars) >= k + 3
    THEN RunEnd(s, k + 1, SkuRestChars)
    ELSE 0

\* the label at i: its number in SkuLabels (the first that matches), 0 when none
SkuLabelAt(s, i) == FirstTrue([n \in DOMAIN SkuLabels |-> MatchesAtCI(s, i, SkuLabels[n])])

\* group 1 starting at k (0: no match)
SkuToken(s, k) == IF k = 0 THEN NoMatch ELSE <<SubSeq(s, k, SkuTokenEnd(s, k) - 1)>>

\* [:\s-]*(group 1) from `from`: the separators are taken greedily and given
\* back one by one until group 1 matches
SkuAfterLabel(s, from, sep) ==
    SkuToken(s, LastTrue([k \in 1..sep |-> k >= from /\ SkuTokenEnd(s, k) # 0]))

SkuWithLabel(s, i, n) ==
    IF n = 0 THEN NoMatch
    ELSE SkuAfterLabel(s, i + Len(SkuLabels[n]),
                       RunEnd(s, i + Len(SkuLabels[n]), SkuSepChars))

\* SKU_RE.match at index i: <<group 1>> or NoMatch. The label is not optional.
SkuMatchAt(s, i) == SkuWithLabel(s, i, SkuLabelAt(s, i))

\* SKU_RE.search(s): <<group 1>> of the leftmost match, or NoMatch
SKU_RE_search(s) == LeftmostFrom([i \in DOMAIN s |-> SkuMatchAt(s, i)], 1)

\* the alternatives of POSSIBLE_UNIT_RE in the order the matcher tries them
\* (pcs? is tried as pcs, then as pc)
UnitWords == << <<"m", "l">>, <<"l">>, <<"l", "i", "t", "r", "e">>, <<"g">>,
                <<"k", "g">>, <<"p", "c", "s">>, <<"p", "c">>,
                <<"p", "a", "c", "k">>, <<"s", "e", "t">>, <<"c", "m">>,
                <<"m", "m">>, <<"i", "n", "c", "h">>, <<"i", "n">>,
                <<"f", "t">>, <<"m">> >>

\* \b between s[i-1] and s[i]
WordBoundary(s, i) == (At(s, i - 1) \in WordChars) # (At(s, i) \in WordChars)

UnitWordAt(s, i, w) ==
    /\ WordBoundary(s, i)
    /\ MatchesAtCI(s, i, w)
    /\ WordBoundary(s, i + Len(w))

UnitText(s, i, n) == IF n = 0 THEN NoMatch ELSE <<SubSeq(s, i, i + Len(UnitWords[n]) - 1)>>

\* POSSIBLE_UNIT_RE.match at index i: <<group 1>> or NoMatch
UnitMatchAt(s, i) ==
    UnitText(s, i, FirstTrue([n \in DOMAIN UnitWords |-> UnitWordAt(s, i, UnitWords[n])]))

\* POSSIBLE_UNIT_RE.search(s): <<group 1>> of the leftmost match, or NoMatch
POSSIBLE_UNIT_RE_search(s) == LeftmostFrom([i \in DOMAIN s |-> UnitMatchAt(s, i)], 1)

HeaderWords == << <<"p", "r", "i", "c", "e">>, <<"m", "r", "p">>, <<"s", "i", "z", "e">>,
                  <<"v", "a", "r", "i", "a", "n", "t">>, <<"q", "t", "y">>,
                  <<"q", "u", "a", "n", "t", "i", "t", "y">> >>

CountIn(s, cls) == Cardinality({i \in DOMAIN s : s[i] \in cls})

\* the test of lines 69-71: a line that can be the product name
IsNameLine(ln) ==
    /\ CountIn(ln, Letters) >= 3
    /\ 2 * CountIn(ln, Digits) <= Len(ln)
    /\ ~\E n \in DOMAIN HeaderWords : ContainsCI(ln, HeaderWords[n])

\* re.sub(r"\s{2,}", " ", s)
RECURSIVE CollapseFrom(_, _)
CollapseFrom(s, i) ==
    IF i > Len(s) THEN <<>>
    ELSE IF s[i] \in Whitespace /\ At(s, i + 1) \in Whitespace
         THEN <<" ">> \o CollapseFrom(s, RunEnd(s, i, Whitespace))
         ELSE <<s[i]>> \o CollapseFrom(s, i + 1)

CollapseSpaces(s) == CollapseFrom(s, 1)

-----------------------------------------------------------------------------
(* parse_text_block_to_products                                            *)

DescLimit == 400
HeadLines == 5
SnippetLines == 3

\* line 54: lines = [ln.strip() for ln in text.splitlines() if ln.strip()]
StripEach(raw) == [i \in DOMAIN raw |-> Strip(raw[i])]
StrippedLines(t) == SelectSeq(StripEach(splitlines(t)), LAMBDA ln : ln # <<>>)

\* HeadOf with every line inspected
HeadOfAll(lines) == lines

\* lines[:5]
HeadOf(lines) == SubSeq(lines, 1, Min(HeadLines, Len(lines)))

\* lines 63-66: the sku is group 1 of the first line of lines[:5] that matches
FirstSku(found, k) == IF k = 0 THEN <<>> ELSE <<Strip(found[k][1])>>
SkuAmong(found) == FirstSku(found, FirstTrue([i \in DOMAIN found |-> found[i] # NoMatch]))
DetectSku(lines) == SkuAmong([i \in DOMAIN HeadOf(lines) |-> SKU_RE_search(lines[i])])

\* lines 63-76: the product name is the first line of lines[:5] that can be
\* one, and the first line when there is none
NameAt(lines, k) == IF k = 0 THEN lines[1] ELSE lines[k]
DetectName(lines) ==
    NameAt(lines, FirstTrue([i \in DOMAIN HeadOf(lines) |-> IsNameLine(lines[i])]))

\* lines 91-95: the variant text
VariantOf(ln) == CollapseSpaces(StripChars(PRICE_RE_sub(ln), {" ", "-", ":", "\t"}))

\* lines 97-111: the row appended for a line whose price is not None
DraftRow(product_name, sku, cp, variant) ==
    [product_name |-> product_name,
     sku |-> sku,
     variant |-> IF variant # <<>> THEN <<variant>> ELSE <<>>,
     unit |-> POSSIBLE_UNIT_RE_search(variant),
     price |-> cp[2],
     currency |-> cp[1],
     description |-> <<>>]

PriceRow(ln, product_name, sku) ==
    DraftRow(product_name, sku, _normalize_price_str(ln), VariantOf(ln))

\* lines 85-87: a line is skipped when its price is None
EmitsRow(ln) == _normalize_price_str(ln)[2] # <<>>

\* lines 82-83: a line is buffered for the description when PRICE_RE does not match it
IsDescriptionLine(ln) == PRICE_RE_search(ln) = NoMatch

\* DescSnippet with the snippet cut after 2 lines
DescSnippetTwoLines(description_lines) ==
    Take(Join(SubSeq(description_lines, 1, Min(2, Len(description_lines))), <<" ">>),
         DescLimit)

\* line 127: the snippet
DescSnippet(description_lines) ==
    Take(Join(SubSeq(description_lines, 1, Min(SnippetLines, Len(description_lines))),
              <<" ">>), DescLimit)

\* FallbackRow with the snippet of the price rows as description
FallbackRowSnippet(lines, product_name, sku) ==
    [product_name |-> product_name,
     sku |-> sku,
     variant |-> <<>>,
     unit |-> <<>>,
     price |-> <<>>,
     currency |-> <<>>,
     description |-> <<Take(Join(SubSeq(lines, 1, Min(SnippetLines, Len(lines))),
                                 <<" ">>), DescLimit)>>]

\* lines 115-124: the fallback row
FallbackRow(lines, product_name, sku) ==
    [product_name |-> product_name,
     sku |-> sku,
     variant |-> <<>>,
     unit |-> <<>>,
     price |-> <<>>,
     currency |-> <<>>,
     description |-> <<Take(Join(lines, <<" ">>), DescLimit)>>]

\* lines 128-129
WithDescription(drafts, snippet) ==
    [i \in DOMAIN drafts |-> [drafts[i] EXCEPT !.description = <<snippet>>]]

\* lines 80-111: the rows of the loop over the lines
Drafts(price_lines, product_name, sku) ==
    [i \in DOMAIN price_lines |-> PriceRow(price_lines[i], product_name, sku)]

\* lines 114-129
FinishRows(lines, product_name, sku, drafts) ==
    IF drafts = <<>>
    THEN <<FallbackRow(lines, product_name, sku)>>
    ELSE WithDescription(drafts, DescSnippet(SelectSeq(lines, IsDescriptionLine)))

BuildRows(lines, product_name, sku) ==
    FinishRows(lines, product_name, sku,
               Drafts(SelectSeq(lines, EmitsRow), product_name, sku))

ParseLines(lines) ==
    IF lines = <<>> THEN <<>>
    ELSE BuildRows(lines, DetectName(lines), DetectSku(lines))

parse_text_block_to_products(t) == ParseLines(StrippedLines(t))

-----------------------------------------------------------------------------
(* One iteration of the page loop of extract_data_from_pdf (lines 148-270) *)
(*                                                                         *)
(* A page, as the PDF library delivers it, is a record                     *)
(*   load_ok     FALSE when doc.load_page raises                           *)
(*   dict_ok     FALSE when page.get_text("dict") raises                   *)
(*   blocks      the blocks of the dict: image blocks                      *)
(*               [type |-> 1, bbox, image, extract_ok] and text blocks     *)
(*               [type |-> 0, bbox, lines]; bbox and image are Optional    *)
(*               (key absent / None); extract_ok is FALSE when extracting  *)
(*               or writing the image raises                               *)
(*   listed_ok   FALSE when page.get_images raises                         *)
(*   listed      the list page.get_images gives: [xref, extract_ok]        *)
(*   plain_ok    FALSE when page.get_text("text") raises                   *)
(*   plain       the str page.get_text("text") gives                       *)

ZeroBox == <<0, 0, 0, 0>>

\* b.get("bbox", (0, 0, 0, 0))
BoxOf(b) == IF b.bbox = <<>> THEN ZeroBox ELSE b.bbox[1]

\* _center, scaled by 2 to stay in the integers
_center(bbox) == <<bbox[1] + bbox[3], bbox[2] + bbox[4]>>

\* _distance, squared (and scaled by 4, as the centers are scaled by 2):
\* the order of two distances is the order of their squares
_distance(a, b) == (a[1] - b[1]) * (a[1] - b[1]) + (a[2] - b[2]) * (a[2] - b[2])

\* the relative path of an extracted image: <folder>/images/p<page>_<tag><id>.<ext>
ImagePath(folder, page, tag, id) ==
    [folder |-> folder, page |-> page, tag |-> tag, id |-> id, ext |-> "png"]

\* lines 161-183: whether an image block is recorded in image_entries
StructuralExtracted(b) == b.type = 1 /\ b.image # <<>> /\ b.extract_ok

\* lines 176-180: the entries recorded for the extracted image blocks
StructuralRecords(kept, folder, page) ==
    [i \in DOMAIN kept |->
        [xref |-> kept[i].image[1],
         bbox |-> <<BoxOf(kept[i])>>,
         path |-> ImagePath(folder, page, "x", kept[i].image[1])]]

\* lines 161-183: image_entries after the loop over the blocks
StructuralEntries(blocks, folder, page) ==
    StructuralRecords(SelectSeq(blocks, StructuralExtracted), folder, page)

\* lines 198-202: the entries recorded for the listed images that were extracted;
\* ords are their positions in the list
ListedRecords(listed, ords, folder, page) ==
    [k \in DOMAIN ords |->
        [xref |-> listed[ords[k]].xref,
         bbox |-> <<>>,
         path |-> ImagePath(folder, page, "", ords[k])]]

\* lines 188-204: the entries appended by the enumeration without positions
ListedEntries(listed, folder, page) ==
    ListedRecords(listed,
                  SelectSeq([i \in DOMAIN listed |-> i], LAMBDA i : listed[i].extract_ok),
                  folder, page)

\* line 186: the enumeration without positions runs when image_entries is empty
TakesFallback(entries) == entries = <<>>

\* lines 213-222: the text of a text block
BlockText(b) == Strip(Join(SelectSeq(b.lines, LAMBDA l : l # <<>>), <<"\n">>))

StructuralTexts(kept) == [i \in DOMAIN kept |-> <<BoxOf(kept[i]), BlockText(kept[i])>>]

\* lines 207-229: text_blocks, a list of <<bbox, text>>
TextBlocks(blocks, plain) ==
    IF blocks # <<>>
    THEN StructuralTexts(SelectSeq(blocks, LAMBDA b : b.type = 0 /\ BlockText(b) # <<>>))
    ELSE IF Strip(plain) # <<>> THEN << <<ZeroBox, plain>> >> ELSE <<>>

\* lines 245 and 255: a position box (Optional) that cannot be used
Unusable(box) == box = <<>> \/ box[1] = ZeroBox

\* Closer with <= for <: a later image at the same distance replaces the best
CloserOrEqual(d, best_d) == best_d = <<>> \/ d <= best_d[1]

\* line 260: whether the image at distance d replaces the best so far
Closer(d, best_d) == best_d = <<>> \/ d < best_d[1]

\* lines 251-262: the loop over image_entries, from entry i on;
\* best is Optional (an index of entries), best_d Optional (its distance)
RECURSIVE NearestFrom(_, _, _, _, _)
NearestStep(entries, tcenter, i, best, best_d, d) ==
    IF Closer(d, best_d)
    THEN NearestFrom(entries, tcenter, i + 1, <<i>>, <<d>>)
    ELSE NearestFrom(entries, tcenter, i + 1, best, best_d)
NearestFrom(entries, tcenter, i, best, best_d) ==
    IF i > Len(entries) THEN best
    ELSE IF Unusable(entries[i].bbox)
         THEN NearestFrom(entries, tcenter, i + 1, best, best_d)
    ELSE NearestStep(entries, tcenter, i, best, best_d,
                     _distance(tcenter, _center(entries[i].bbox[1])))

\* FirstImage with the last entry for the first
LastImage(entries) == IF entries # <<>> THEN <<entries[Len(entries)].path>> ELSE <<>>

\* lines 246-248: the image of a row without a usable position box
FirstImage(entries) == IF entries # <<>> THEN <<entries[1].path>> ELSE <<>>

\* lines 263-264
BestPath(entries, best) == IF best # <<>> THEN <<entries[best[1]].path>> ELSE <<>>

\* lines 243-264: the image_path of a row whose text block has box tb
AssignImage(tb, entries) ==
    IF Unusable(<<tb>>) THEN FirstImage(entries)
    ELSE BestPath(entries, NearestFrom(entries, _center(tb), 1, <<>>, <<>>))

\* lines 235-240 and 243-264: the parsed rows of a text block, as they are
\* after the association
TagRows(parsed_rows, image_path, tb, page, pdf) ==
    [i \in DOMAIN parsed_rows |->
        [product_name |-> parsed_rows[i].product_name,
         sku |-> parsed_rows[i].sku,
         variant |-> parsed_rows[i].variant,
         unit |-> parsed_rows[i].unit,
         price |-> parsed_rows[i].price,
         currency |-> parsed_rows[i].currency,
         description |-> parsed_rows[i].description,
         page |-> page,
         pdf |-> pdf,
         image_path |-> image_path,
         text_bbox |-> tb]]

BlockRows(tblock, entries, page, pdf) ==
    TagRows(parse_text_block_to_products(tblock[2]), AssignImage(tblock[1], entries),
            tblock[1], page, pdf)

RECURSIVE Flatten(_)
Flatten(seqs) == IF seqs = <<>> THEN <<>> ELSE seqs[1] \o Flatten(Tail(seqs))

\* lines 267-268: r.pop("text_bbox", None)
PopBox(r) ==
    [product_name |-> r.product_name, sku |-> r.sku, variant |-> r.variant,
     unit |-> r.unit, price |-> r.price, currency |-> r.currency,
     description |-> r.description, page |-> r.page, pdf |-> r.pdf,
     image_path |-> r.image_path]

\* what one iteration gives: raised is TRUE when it raises; fallback tells
\* whether the enumeration without positions ran; boxed are the rows before
\* the position box is popped, page_rows the rows after
PageResult(fallback, entries, boxed) ==
    [raised |-> FALSE, fallback |-> fallback, image_entries |-> entries,
     boxed |-> boxed, page_rows |-> [i \in DOMAIN boxed |-> PopBox(boxed[i])]]

PageRaised(fallback) ==
    [raised |-> TRUE, fallback |-> fallback, image_entries |-> <<>>,
     boxed |-> <<>>, page_rows |-> <<>>]

\* lines 232-264
PageRows(fallback, entries, tblocks, page, pdf) ==
    PageResult(fallback, entries,
               Flatten([i \in DOMAIN tblocks |-> BlockRows(tblocks[i], entries, page, pdf)]))

\* lines 186-204: image_entries after the enumeration without positions
AllEntries(structural, listed, folder, page) ==
    IF TakesFallback(structural)
    THEN structural \o ListedEntries(listed, folder, page)
    ELSE structural

\* lines 149, 187 and 227: the calls on the page that are not guarded
PageWithImages(p, folder, page, pdf, blocks, structural) ==
    IF ~p.load_ok THEN PageRaised(FALSE)
    ELSE IF TakesFallback(structural) /\ ~p.listed_ok THEN PageRaised(TRUE)
    ELSE IF blocks = <<>> /\ ~p.plain_ok THEN PageRaised(TakesFallback(structural))
    ELSE PageRows(TakesFallback(structural),
                  AllEntries(structural, p.listed, folder, page),
                  TextBlocks(blocks, p.plain), page, pdf)

PageWithBlocks(p, folder, page, pdf, blocks) ==
    PageWithImages(p, folder, page, pdf, blocks, StructuralEntries(blocks, folder, page))

\* lines 149-270 for the page p; lines 152-157: no blocks when the dict cannot be had
PageStep(p, folder, page, pdf) ==
    PageWithBlocks(p, folder, page, pdf, IF p.dict_ok THEN p.blocks ELSE <<>>)

-----------------------------------------------------------------------------
(* File names and paths                                                    *)

\* the characters sanitize_filename replaces: < > : " / \ | ? *
InvalidChars == {"<", ">", ":", "\"", "/", "\\", "|", "?", "*"}

\* re.sub(r'[<>:"/\\|?*]+', '_', name): every run becomes one underscore
RECURSIVE ReplaceRunsFrom(_, _)
ReplaceRunsFrom(s, i) ==
    IF i > Len(s) THEN <<>>
    ELSE IF s[i] \in InvalidChars
         THEN <<"_">> \o ReplaceRunsFrom(s, RunEnd(s, i, InvalidChars))
         ELSE <<s[i]>> \o ReplaceRunsFrom(s, i + 1)

sanitize_filename(name) == ReplaceRunsFrom(Strip(name), 1)

\* os.path.splitext(name)[0]: the name up to its last dot, when a character
\* other than a dot comes before that dot
RootBefore(name, k) ==
    IF k > 0 /\ \E j \in 1..(k - 1) : name[j] # "." THEN SubSeq(name, 1, k - 1) ELSE name
SplitExtRoot(name) == RootBefore(name, LastTrue([i \in DOMAIN name |-> name[i] = "."]))

\* f.lower().endswith('.pdf')
IsPdfName(f) ==
    Len(f) >= 4 /\ MatchesAtCI(f, Len(f) - 3, <<".", "p", "d", "f">>)

\* line 140
PdfFilename(pdf_file) == sanitize_filename(Strip(SplitExtRoot(pdf_file)))

\* lines 281-282 and 288, relative to output_dir
CsvPath(pdf_filename) ==
    [folder |-> pdf_filename, file |-> pdf_filename \o <<".", "c", "s", "v">>]
\* AltPath with the retry going to the regular path again
AltPathSame(pdf_filename) == CsvPath(pdf_filename)

AltPath(pdf_filename) ==
    [folder |-> pdf_filename,
     file |-> pdf_filename \o <<"_", "n", "e", "w", ".", "c", "s", "v">>]

-----------------------------------------------------------------------------
(* Inputs of the model                                                     *)

MaxFiles == 2     \* entries of the data directory
MaxPages == 2     \* pages of a document
MaxLines == 3     \* raw lines of a generated text segment
MaxImages == 2    \* image blocks of a generated page
MaxTexts == 1     \* text blocks of a generated page
MaxListed == 1    \* images page.get_images lists on a generated page

\* sequences over S of length at most n
SeqsUpTo(S, n) == UNION {[1..k -> S] : k \in 0..n}

DirNames == { <<"a", ".", "p", "d", "f">>,
              <<"a", ".", "P", "D", "F">>,
              <<"b", "?", ".", "p", "d", "f">>,
              <<"n", ".", "t", "x", "t">> }

\* os.listdir: the entries of the directory, each once, in any order
Listings == {l \in SeqsUpTo(DirNames, MaxFiles) :
                \A i, j \in DOMAIN l : i # j => l[i] # l[j]}

BoxA == <<0, 0, 2, 2>>
BoxB == <<4, 0, 6, 2>>
BoxC == <<2, 0, 4, 2>>

T_Mug == << <<"M", "u", "g">> >>
T_Two == << <<"A", " ", "1">>, <<"B", " ", "2">> >>
T_Blank == << <<" ">> >>

ImageBlock(bbox, image, ok) == [type |-> 1, bbox |-> bbox, image |-> image, extract_ok |-> ok]
TextBlock(bbox, lines) == [type |-> 0, bbox |-> bbox, lines |-> lines]

Page(load_ok, dict_ok, blocks, listed_ok, listed, plain_ok, plain) ==
    [load_ok |-> load_ok, dict_ok |-> dict_ok, blocks |-> blocks,
     listed_ok |-> listed_ok, listed |-> listed, plain_ok |-> plain_ok, plain |-> plain]

\* the pages of the documents of the orchestrator's runs
OrchPages ==
    { Page(FALSE, TRUE, <<>>, TRUE, <<>>, TRUE, <<>>),
      Page(TRUE, TRUE, <<>>, TRUE, <<>>, TRUE, <<>>),
      Page(TRUE, TRUE, <<ImageBlock(<<BoxA>>, <<7>>, TRUE), TextBlock(<<BoxA>>, T_Mug)>>,
           TRUE, <<>>, TRUE, <<>>) }

\* the outcomes of DataFrame.to_csv
WriteResults == {"ok", "permission", "error"}

-----------------------------------------------------------------------------
(* main and extract_data_from_pdf                                          *)

NoOutcome == [kind |-> "pending", path |-> <<>>]
Line(kind, doc, path) == [kind |-> kind, doc |-> doc, path |-> path]

\* line 301
ScanFilter(listing) == SelectSeq(listing, IsPdfName)

\* NothingFound with the test of line 274 left out
NothingFoundNever(rs) == FALSE

\* line 274
NothingFound(rs) == rs = <<>>

\* HandlerCatches with a handler that lets the error through
HandlerCatchesNothing(o) == FALSE

\* lines 316-317: the handler takes every error a document raises
HandlerCatches(o) == TRUE

\* lines 312-317: the result line of a document
ResultLine(pdf_file, o) ==
    IF o.kind = "error" THEN Line("error", <<pdf_file>>, <<>>)
    ELSE IF o.path # <<>> THEN Line("created", <<pdf_file>>, o.path)
    ELSE Line("nodata", <<pdf_file>>, <<>>)

\* lines 297-306
Scan ==
    /\ pc = "scan"
    /\ \E listing \in Listings :
          /\ pdf_files' = ScanFilter(listing)
          /\ IF ScanFilter(listing) = <<>>
             THEN /\ printed' = Append(printed, Line("nofiles", <<>>, <<>>))
                  /\ pc' = "done"
             ELSE /\ printed' = Append(printed, Line("found", <<>>, <<>>))
                  /\ pc' = "next"
    /\ UNCHANGED <<idx, open_docs, num_pages, page_num, all_rows, outcome, files, attempts>>
    /\ UNCHANGED <<parse_vars, page_vars>>

\* lines 307-311 and 140-146: the next document is taken and opened
StartDocument ==
    /\ pc = "next"
    /\ idx < Len(pdf_files)
    /\ idx' = idx + 1
    /\ printed' = Append(printed, Line("processing", <<pdf_files[idx + 1]>>, <<>>))
    /\ all_rows' = <<>>
    /\ page_num' = 0
    /\ \E open_ok \in BOOLEAN, n \in 0..MaxPages :
          IF open_ok
          THEN /\ open_docs' = open_docs \cup {idx + 1}
               /\ num_pages' = n
               /\ outcome' = NoOutcome
               /\ pc' = "page"
          ELSE /\ n = 0
               /\ open_docs' = open_docs
               /\ num_pages' = 0
               /\ outcome' = [kind |-> "error", path |-> <<>>]
               /\ pc' = "report"
    /\ UNCHANGED <<pdf_files, files, attempts>>
    /\ UNCHANGED <<parse_vars, page_vars>>

\* lines 148-270: the effect of one iteration of the page loop that gave r
TakePage(r) ==
    IF r.raised
    THEN /\ outcome' = [kind |-> "error", path |-> <<>>]
         /\ pc' = "report"
         /\ UNCHANGED <<page_num, all_rows>>
    ELSE /\ all_rows' = all_rows \o r.page_rows
         /\ page_num' = page_num + 1
         /\ UNCHANGED <<outcome, pc>>

\* lines 148-270: one iteration of the page loop
ProcessPage ==
    /\ pc = "page"
    /\ page_num < num_pages
    /\ \E p \in OrchPages :
          TakePage(PageStep(p, PdfFilename(pdf_files[idx]), page_num + 1, pdf_files[idx]))
    /\ UNCHANGED <<pdf_files, idx, open_docs, num_pages, printed, files, attempts>>
    /\ UNCHANGED <<parse_vars, page_vars>>

\* the table files after a write of `doc` to `path` went through
Written(path, doc) == {f \in files : f.path # path} \cup {[path |-> path, doc |-> doc]}

Attempt(doc, path, result) == [doc |-> doc, path |-> path, result |-> result]

\* lines 284-290: the table is written, w1 being the outcome of the write to
\* the regular path and w2 that of the write to the alternative path;
\* <<outcome, files, attempts>> after it
WriteTable(doc, csv_path, alt_path, w1, w2) ==
    IF w1 = "ok"
    THEN <<[kind |-> "path", path |-> <<csv_path>>],
           Written(csv_path, doc),
           Append(attempts, Attempt(doc, csv_path, w1))>>
    ELSE IF w1 = "permission"
    THEN IF w2 = "ok"
         THEN <<[kind |-> "path", path |-> <<alt_path>>],
                Written(alt_path, doc),
                attempts \o <<Attempt(doc, csv_path, w1), Attempt(doc, alt_path, w2)>>>>
         ELSE <<[kind |-> "error", path |-> <<>>],
                files,
                attempts \o <<Attempt(doc, csv_path, w1), Attempt(doc, alt_path, w2)>>>>
    ELSE <<[kind |-> "error", path |-> <<>>],
           files,
           Append(attempts, Attempt(doc, csv_path, w1))>>

TakeWrite(w) == outcome' = w[1] /\ files' = w[2] /\ attempts' = w[3]

\* lines 277-292
Emit(pdf_filename) ==
    \E w1, w2 \in WriteResults :
        TakeWrite(WriteTable(idx, CsvPath(pdf_filename), AltPath(pdf_filename), w1, w2))

\* lines 272-292: the loop is over; the document is closed and the table emitted
CloseAndEmit ==
    /\ pc = "page"
    /\ page_num = num_pages
    /\ open_docs' = open_docs \ {idx}
    /\ pc' = "report"
    /\ IF NothingFound(all_rows)
       THEN /\ outcome' = [kind |-> "none", path |-> <<>>]
            /\ UNCHANGED <<files, attempts>>
       ELSE Emit(PdfFilename(pdf_files[idx]))
    /\ UNCHANGED <<pdf_files, idx, num_pages, page_num, all_rows, printed>>
    /\ UNCHANGED <<parse_vars, page_vars>>

\* lines 312-317: the result of the document is printed
Report ==
    /\ pc = "report"
    /\ IF outcome.kind = "error" /\ ~HandlerCatches(outcome)
       THEN /\ pc' = "done"
            /\ UNCHANGED printed
       ELSE /\ pc' = "next"
            /\ printed' = Append(printed, ResultLine(pdf_files[idx], outcome))
    /\ UNCHANGED <<pdf_files, idx, open_docs, num_pages, page_num, all_rows, outcome,
                   files, attempts>>
    /\ UNCHANGED <<parse_vars, page_vars>>

\* line 307: the list is exhausted and main returns
Finish ==
    /\ pc = "next"
    /\ idx = Len(pdf_files)
    /\ pc' = "done"
    /\ UNCHANGED <<pdf_files, idx, open_docs, num_pages, page_num, all_rows, outcome,
                   printed, files, attempts>>
    /\ UNCHANGED <<parse_vars, page_vars>>

-----------------------------------------------------------------------------
(* The parser and the page step on their own, over generated inputs        *)

RawLines == <<<<"M", "u", "g">>,
              <<"2", "5", "0", "m", "l", " ", "-", " ", "1", "9", "9">>,
              <<"R", "s", ".", " ", "1", ",", "2", "9", "9", ".", "5", "0">>,
              <<"S", "K", "U", " ", "A", "B", "C">>,
              <<>>,
              <<" ", " ", "R", "e", "d", " ", " ">>,
              <<"S", "i", "z", "e">>,
              <<"1", "2", "3", "4", "5">>,
              <<"₹", "4", "9", "9">>>>

\* a line of n times the character c
LongLine(c, n) == [i \in 1..n |-> c]
LongLen == 150

SegSuperWidget ==
    << <<"S", "u", "p", "e", "r", "W", "i", "d", "g", "e", "t", " ", "2", "5", "0">>,
         <<"2", "5", "0", "m", "l", " ", "-", " ", "1", "9", "9">>,
         <<"5", "0", "0", "m", "l", " ", "-", " ", "3", "4", "9">> >>

SegProse ==
    << <<"S", "o", "f", "t", " ", "c", "o", "t", "t", "o", "n", " ", "t", "o", "w", "e", "l">>,
         <<"M", "a", "d", "e", " ", "i", "n", " ", "I", "n", "d", "i", "a">>,
         <<"M", "a", "c", "h", "i", "n", "e", " ", "w", "a", "s", "h", "a", "b", "l", "e">>,
         <<"Q", "u", "i", "c", "k", " ", "d", "r", "y", " ", "f", "a", "b", "r", "i", "c">>,
         <<"P", "a", "c", "k", " ", "o", "f", " ", "t", "w", "o">>,
         <<"A", "s", "s", "o", "r", "t", "e", "d", " ", "c", "o", "l", "o", "u", "r", "s">> >>

SegFourNotes ==
    << <<"M", "u", "g">>,
         <<"B", "l", "u", "e", " ", "g", "l", "a", "z", "e">>,
         <<"D", "i", "s", "h", "w", "a", "s", "h", "e", "r", " ", "s", "a", "f", "e">>,
         <<"G", "i", "f", "t", " ", "b", "o", "x">>,
         <<"L", "a", "r", "g", "e", " ", "4", "9", "9">>,
         <<"S", "m", "a", "l", "l", " ", "2", "9", "9">> >>

SegLateSku ==
    << <<"M", "u", "g">>,
         <<"B", "l", "u", "e", " ", "g", "l", "a", "z", "e">>,
         <<"D", "i", "s", "h", "w", "a", "s", "h", "e", "r", " ", "s", "a", "f", "e">>,
         <<"G", "i", "f", "t", " ", "b", "o", "x">>,
         <<"L", "a", "r", "g", "e", " ", "4", "9", "9">>,
         <<"S", "K", "U", " ", "X", "Y", "Z">> >>

SegTwoSkus ==
    << <<"M", "u", "g">>,
         <<"S", "K", "U", " ", "A", "B", "C">>,
         <<"S", "K", "U", " ", "X", "Y", "Z">>,
         <<"L", "a", "r", "g", "e", " ", "4", "9", "9">> >>

SegLong ==
    <<LongLine("x", LongLen), LongLine("y", LongLen), LongLine("z", LongLen), <<"9">>>>
SegLongProse ==
    <<LongLine("x", LongLen), LongLine("y", LongLen), LongLine("z", LongLen)>>

SegLabelForms ==
    << <<"M", "u", "g">>,
         <<"m", "o", "d", "e", "l", " ", "X", "1">>,
         <<"b", "a", "r", "c", "o", "d", "e">>,
         <<"I", "t", "e", "m", " ", "C", "o", "d", "e", ":", " ", "A", "B", "/", "1", "2", "_", "x">>,
         <<"S", "K", "U", " ", "A", "B", "C">> >>

Segments == {SegSuperWidget, SegProse, SegFourNotes, SegLateSku, SegTwoSkus, SegLong,
             SegLongProse, SegLabelForms}

\* the text segments given to the parser: the raw lines of a segment joined by line breaks
ParserTexts ==
    {Join([i \in DOMAIN f |-> RawLines[f[i]]], <<"\n">>) :
        f \in SeqsUpTo(DOMAIN RawLines, MaxLines)}
    \cup {Join(seg, <<"\n">>) : seg \in Segments}

ParseInit == text \in ParserTexts /\ parsed = FALSE /\ rows = <<>>

\* parse_text_block_to_products is called on the segment
Parse ==
    /\ ~parsed
    /\ rows' = parse_text_block_to_products(text)
    /\ parsed' = TRUE
    /\ UNCHANGED <<text, orch_vars, page_vars>>

\* the image blocks of a generated page; the k-th block of the page has xref 10 + k
ImageKinds == {"nobox", "boxA", "boxB", "fails", "noref"}
MakeImage(kind, k) ==
    IF kind = "nobox" THEN ImageBlock(<<>>, <<10 + k>>, TRUE)
    ELSE IF kind = "boxA" THEN ImageBlock(<<BoxA>>, <<10 + k>>, TRUE)
    ELSE IF kind = "boxB" THEN ImageBlock(<<BoxB>>, <<10 + k>>, TRUE)
    ELSE IF kind = "fails" THEN ImageBlock(<<BoxA>>, <<10 + k>>, FALSE)
    ELSE ImageBlock(<<BoxA>>, <<>>, TRUE)

\* the text blocks of a generated page
TextKinds == {"nobox", "zero", "boxA", "boxC", "two", "blank"}
MakeText(kind) ==
    IF kind = "nobox" THEN TextBlock(<<>>, T_Mug)
    ELSE IF kind = "zero" THEN TextBlock(<<ZeroBox>>, T_Mug)
    ELSE IF kind = "boxA" THEN TextBlock(<<BoxA>>, T_Mug)
    ELSE IF kind = "boxC" THEN TextBlock(<<BoxC>>, T_Mug)
    ELSE IF kind = "two" THEN TextBlock(<<BoxC>>, T_Two)
    ELSE TextBlock(<<BoxA>>, T_Blank)

\* the list of page.get_images: the embedded images of the page, the k-th with
\* xref 10 + k, the xref of the k-th image block of the dict
MakeListed(oks) == [k \in DOMAIN oks |-> [xref |-> 10 + k, extract_ok |-> oks[k]]]

PlainTexts == {<<>>, <<"M", "u", "g">>, <<"A", " ", "1", "\n", "B", " ", "2">>}

\* pages whose dict has blocks
StructuredPages ==
    {Page(TRUE, TRUE,
          [k \in DOMAIN imgs |-> MakeImage(imgs[k], k)] \o
              [k \in DOMAIN txts |-> MakeText(txts[k])],
          TRUE, MakeListed(oks), TRUE, <<>>) :
        imgs \in SeqsUpTo(ImageKinds, MaxImages),
        txts \in SeqsUpTo(TextKinds, MaxTexts),
        oks \in SeqsUpTo(BOOLEAN, MaxListed)}

\* pages without blocks, or on which a call of the PDF library raises
DegradedPages ==
    {Page(load_ok, dict_ok, IF dict_ok THEN <<>> ELSE <<MakeText("boxA")>>,
          listed_ok, MakeListed(oks), plain_ok, plain) :
        load_ok \in BOOLEAN, dict_ok \in BOOLEAN, listed_ok \in BOOLEAN,
        plain_ok \in BOOLEAN, oks \in SeqsUpTo(BOOLEAN, MaxListed), plain \in PlainTexts}

PageInputs == StructuredPages \cup DegradedPages

PageFolder == <<"a">>
PagePdf == <<"a", ".", "p", "d", "f">>

PageInit == page_in \in PageInputs /\ page_done = FALSE /\ page_out = <<>>

\* one iteration of the page loop on the page, as page 1 of a.pdf
RunPage ==
    /\ ~page_done
    /\ page_out' = PageStep(page_in, PageFolder, 1, PagePdf)
    /\ page_done' = TRUE
    /\ UNCHANGED <<page_in, orch_vars, parse_vars>>

-----------------------------------------------------------------------------
(* Specifications                                                          *)

OrchInit ==
    /\ pc = "scan" /\ pdf_files = <<>> /\ idx = 0 /\ open_docs = {}
    /\ num_pages = 0 /\ page_num = 0 /\ all_rows = <<>> /\ outcome = NoOutcome
    /\ printed = <<>> /\ files = {} /\ attempts = <<>>

ParseIdle == text = <<>> /\ parsed = FALSE /\ rows = <<>>
PageIdle == page_in = <<>> /\ page_done = FALSE /\ page_out = <<>>
OrchIdle ==
    /\ pc = "idle" /\ pdf_files = <<>> /\ idx = 0 /\ open_docs = {}
    /\ num_pages = 0 /\ page_num = 0 /\ all_rows = <<>> /\ outcome = NoOutcome
    /\ printed = <<>> /\ files = {} /\ attempts = <<>>

\* a run of main
Init == OrchInit /\ ParseIdle /\ PageIdle
Next == Scan \/ StartDocument \/ ProcessPage \/ CloseAndEmit \/ Report \/ Finish
Spec == Init /\ [][Next]_vars

\* parse_text_block_to_products on a text segment
InitParse == OrchIdle /\ ParseInit /\ PageIdle
NextParse == Parse
SpecParse == InitParse /\ [][NextParse]_vars

\* one iteration of the page loop on a page
InitPage == OrchIdle /\ ParseIdle /\ PageInit
NextPage == RunPage
SpecPage == InitPage /\ [][NextPage]_vars

-----------------------------------------------------------------------------
(* Properties of a run of main (Spec)                                      *)

\* extract_data_from_pdf is over for the current document
Returned == pc \in {"report", "next", "done"} /\ idx >= 1

\* the result of the current document has been printed
Reported == pc \in {"next", "done"} /\ idx >= 1

LastPrinted == printed[Len(printed)]

\* the table write attempts of the current document
OwnAttempts == SelectSeq(attempts, LAMBDA a : a.doc = idx)

\* C1: once the document has been opened its handle is closed on every exit
\* path of extract_data_from_pdf, also when the page iteration raises, and
\* the next document never starts while a handle is still open.
C1_HandleClosedOnEveryExit == Returned => open_docs = {}

\* C2: every document of the scan is attempted exactly once, one after
\* another in list order, and exactly one result line follows its
\* "Processing" line before the next document starts; a document that
\* fails is reported as an error and the run goes on to the end of the list.
C2_EveryDocumentOnceInOrder ==
    /\ (pc # "scan" /\ pdf_files # <<>>) =>
          /\ Len(printed) = 1 + 2 * idx - (IF pc \in {"page", "report"} THEN 1 ELSE 0)
          /\ printed[1].kind = "found"
          /\ \A i \in 1..idx :
                /\ printed[2 * i] = Line("processing", <<pdf_files[i]>>, <<>>)
                /\ (2 * i + 1 <= Len(printed)) =>
                      /\ printed[2 * i + 1].kind \in {"created", "nodata", "error"}
                      /\ printed[2 * i + 1].doc = <<pdf_files[i]>>
    /\ (Reported /\ outcome.kind = "error") => LastPrinted.kind = "error"
    /\ pc = "done" => idx = Len(pdf_files)
    /\ pc = "report" => ENABLED Report
    /\ pc = "next" => (ENABLED StartDocument \/ ENABLED Finish)
    /\ pc = "page" => page_num <= num_pages

\* C2 witness: a run of two documents is over, the first failed and the
\* second gave a table.
C2_Witness ==
    /\ pc = "done"
    /\ Len(pdf_files) = 2
    /\ printed[3].kind = "error"
    /\ printed[5].kind = "created"

\* C9: a document that yields no row on any of its pages gets no table file
\* (neither path is written), extract_data_from_pdf gives None, the result
\* line printed for it is "No data extracted", and the run goes on.
C9_NoRowsNoTable ==
    (Returned /\ outcome.kind # "error" /\ all_rows = <<>>) =>
        /\ outcome = [kind |-> "none", path |-> <<>>]
        /\ OwnAttempts = <<>>
        /\ \A f \in files : f.doc # idx
        /\ Reported => LastPrinted = Line("nodata", <<pdf_files[idx]>>, <<>>)
        /\ (pc = "next" /\ idx < Len(pdf_files)) => ENABLED StartDocument
        /\ pc = "report" => ENABLED Report

\* C9 witness: the first of two documents had two pages and no row, and its
\* result line has been printed.
C9_Witness ==
    /\ pc = "next"
    /\ idx = 1
    /\ Len(pdf_files) = 2
    /\ num_pages = 2
    /\ page_num = 2
    /\ all_rows = <<>>
    /\ LastPrinted.kind = "nodata"

\* the two table paths of the current document, spelled out
C10_RegularPath ==
    [folder |-> PdfFilename(pdf_files[idx]),
     file |-> PdfFilename(pdf_files[idx]) \o <<".", "c", "s", "v">>]
C10_NewPath ==
    [folder |-> PdfFilename(pdf_files[idx]),
     file |-> PdfFilename(pdf_files[idx]) \o <<"_", "n", "e", "w", ".", "c", "s", "v">>]

\* the write to the regular path of the current document failed with a permission error
C10_FirstWriteDenied ==
    /\ Returned
    /\ OwnAttempts # <<>>
    /\ OwnAttempts[1].result = "permission"

\* C10 as stated: when the write to <name>.csv fails with a permission error
\* the emitter retries once at <name>_new.csv, and the _new path is returned
\* and reported as a success.
C10_RetryAlwaysSucceeds ==
    C10_FirstWriteDenied =>
        /\ Len(OwnAttempts) = 2
        /\ OwnAttempts[1].path = C10_RegularPath
        /\ OwnAttempts[2].path = C10_NewPath
        /\ outcome = [kind |-> "path", path |-> <<C10_NewPath>>]
        /\ Reported => LastPrinted = Line("created", <<pdf_files[idx]>>, <<C10_NewPath>>)

\* C10 (amended): when the write to <name>.csv fails with a permission error
\* the emitter retries exactly once at <name>_new.csv; when the retry goes
\* through, the _new path is returned and reported as a success; when the
\* retry fails too, nothing more is tried and the document is reported as
\* an error.
C10_RetryOnceAtNewPath ==
    C10_FirstWriteDenied =>
        /\ Len(OwnAttempts) = 2
        /\ OwnAttempts[1].path = C10_RegularPath
        /\ OwnAttempts[2].path = C10_NewPath
        /\ IF OwnAttempts[2].result = "ok"
           THEN /\ outcome = [kind |-> "path", path |-> <<C10_NewPath>>]
                /\ [path |-> C10_NewPath, doc |-> idx] \in files
                /\ Reported =>
                      LastPrinted = Line("created", <<pdf_files[idx]>>, <<C10_NewPath>>)
           ELSE /\ outcome.kind = "error"
                /\ Reported => LastPrinted = Line("error", <<pdf_files[idx]>>, <<>>)

\* C10 witness: the first write was denied, the retry went through and the
\* document has been reported with the _new path.
C10_Witness ==
    /\ C10_FirstWriteDenied
    /\ Len(OwnAttempts) = 2
    /\ OwnAttempts[2].result = "ok"
    /\ Reported
    /\ LastPrinted = Line("created", <<pdf_files[idx]>>, <<C10_NewPath>>)

-----------------------------------------------------------------------------
(* Properties of parse_text_block_to_products (SpecParse)                  *)

\* the non-empty trimmed lines of the segment
SegLines == StrippedLines(text)

MatchesPrice(ln) == PRICE_RE_search(ln) # NoMatch
SegPriceLines == SelectSeq(SegLines, MatchesPrice)
SegOtherLines == SelectSeq(SegLines, LAMBDA ln : ~MatchesPrice(ln))

\* C3: a segment with n >= 1 lines matching the price pattern gives exactly
\* n rows, the k-th for the k-th such line, and every row carries the same
\* description: the first 3 non-price lines joined by single spaces, cut to
\* 400 characters.
C3_OneRowPerPriceLine ==
    (parsed /\ SegPriceLines # <<>>) =>
        /\ Len(rows) = Len(SegPriceLines)
        /\ \A k \in DOMAIN rows :
              /\ rows[k].price = _normalize_price_str(SegPriceLines[k])[2]
              /\ rows[k].price # <<>>
              /\ rows[k].description =
                     <<Take(Join(SubSeq(SegOtherLines, 1, Min(3, Len(SegOtherLines))),
                                 <<" ">>), 400)>>

\* C3 witness: a parsed segment with two price lines and more than 3 other
\* lines, or one whose first 3 other lines are longer than 400 characters.
C3_Witness ==
    /\ parsed
    /\ Len(rows) >= 1
    /\ Len(SegPriceLines) >= 1
    /\ Len(SegOtherLines) > 3 \/ Len(Join(SegOtherLines, <<" ">>)) > 400

\* the first of the first 5 lines that can be a name, else the first line
C4_Name ==
    IF \E i \in 1..Min(5, Len(SegLines)) : IsNameLine(SegLines[i])
    THEN SegLines[CHOOSE i \in 1..Min(5, Len(SegLines)) :
                      /\ IsNameLine(SegLines[i])
                      /\ \A j \in 1..(i - 1) : ~IsNameLine(SegLines[j])]
    ELSE SegLines[1]

\* the fallback row but for its description
C4_BareRow(r) ==
    /\ r.product_name = C4_Name
    /\ r.sku = DetectSku(SegLines)
    /\ r.variant = <<>>
    /\ r.unit = <<>>
    /\ r.price = <<>>
    /\ r.currency = <<>>

\* C4 as stated: a non-empty segment without a price line gives exactly one
\* row, with the detected name and sku, nothing else set, and the full
\* segment text cut to 400 characters as description.
C4_FallbackIsFullText ==
    (parsed /\ text # <<>> /\ SegPriceLines = <<>>) =>
        /\ Len(rows) = 1
        /\ C4_BareRow(rows[1])
        /\ rows[1].description = <<Take(text, 400)>>

\* C4 (amended): a segment with at least one non-blank line and without a
\* price line gives exactly one row, with the detected name and sku, nothing
\* else set, and as description the non-blank lines of the segment, each
\* trimmed, joined by single spaces and cut to 400 characters; a segment of
\* blank lines only gives no row.
C4_FallbackIsJoinedLines ==
    /\ (parsed /\ SegLines # <<>> /\ SegPriceLines = <<>>) =>
          /\ Len(rows) = 1
          /\ C4_BareRow(rows[1])
          /\ rows[1].description = <<Take(Join(SegLines, <<" ">>), 400)>>
    /\ (parsed /\ SegLines = <<>>) => rows = <<>>

\* C4 witness: a parsed segment of several lines without a price line whose
\* joined lines are longer than 400 characters.
C4_Witness ==
    /\ parsed
    /\ Len(SegLines) >= 2
    /\ SegPriceLines = <<>>
    /\ Len(Join(SegLines, <<" ">>)) > 400
    /\ Len(rows) = 1
    /\ Len(rows[1].description[1]) = 400

C5_Name == <<"S", "u", "p", "e", "r", "W", "i", "d", "g", "e", "t", " ", "2", "5", "0">>

\* C5: the segment "SuperWidget 250" / "250ml - 199" / "500ml - 349" gives
\* exactly two rows named "SuperWidget 250": variant "250ml", price 199, unit
\* "ml", then variant "500ml", price 349, unit "ml", both with the name line
\* as description.
C5_SuperWidgetScenario ==
    (parsed /\ text = Join(SegSuperWidget, <<"\n">>)) =>
        /\ Len(rows) = 2
        /\ \A k \in DOMAIN rows :
              /\ rows[k].product_name = C5_Name
              /\ rows[k].unit = <<<<"m", "l">>>>
              /\ rows[k].description = <<C5_Name>>
        /\ rows[1].variant = <<<<"2", "5", "0", "m", "l">>>>
        /\ rows[1].price = <<[n |-> 199, e |-> 0]>>
        /\ rows[2].variant = <<<<"5", "0", "0", "m", "l">>>>
        /\ rows[2].price = <<[n |-> 349, e |-> 0]>>

\* The case of C6 (PRICE_RE matches a line and float raises on group 2)
\* does not arise: for every line the pattern matches, float accepts the
\* matched number, so the price is never None on such a line and the branch
\* of lines 44-45 is not taken.
PriceAlwaysConverts ==
    \A k \in DOMAIN SegLines :
        MatchesPrice(SegLines[k]) => _normalize_price_str(SegLines[k])[2] # <<>>

\* A line of the segment that the pattern matches has been parsed.
PriceLineParsed == parsed /\ SegPriceLines # <<>>

-----------------------------------------------------------------------------
(* Properties of one iteration of the page loop (SpecPage)                 *)

PageRan == page_done /\ ~page_out.raised

\* C7: a row whose text position box is absent or all-zero gets the path of
\* the first extracted image of the page, and no path when the page has no
\* extracted image.
C7_UnknownBoxTakesFirstImage ==
    PageRan =>
        \A k \in DOMAIN page_out.boxed :
            page_out.boxed[k].text_bbox = <<0, 0, 0, 0>> =>
                page_out.page_rows[k].image_path =
                    IF Len(page_out.image_entries) >= 1
                    THEN <<page_out.image_entries[1].path>>
                    ELSE <<>>

\* C7 witness: a row without a usable box on a page with two extracted
\* images of different paths has the path of the first.
C7_Witness ==
    /\ PageRan
    /\ Len(page_out.image_entries) >= 2
    /\ page_out.image_entries[1].path # page_out.image_entries[2].path
    /\ \E k \in DOMAIN page_out.boxed :
          /\ page_out.boxed[k].text_bbox = <<0, 0, 0, 0>>
          /\ page_out.page_rows[k].image_path = <<page_out.image_entries[1].path>>

\* the images of the page with a usable position box
C8_Usable ==
    {i \in DOMAIN page_out.image_entries :
        /\ page_out.image_entries[i].bbox # <<>>
        /\ page_out.image_entries[i].bbox[1] # <<0, 0, 0, 0>>}

\* 4 times the square of the distance between the centers of two boxes
C8_Dist(a, b) ==
    ((a[1] + a[3]) - (b[1] + b[3])) * ((a[1] + a[3]) - (b[1] + b[3]))
    + ((a[2] + a[4]) - (b[2] + b[4])) * ((a[2] + a[4]) - (b[2] + b[4]))

\* image i is the first, in extraction order, of the usable images nearest to box tb
C8_FirstNearest(tb, i) ==
    /\ i \in C8_Usable
    /\ \A j \in C8_Usable :
          /\ C8_Dist(tb, page_out.image_entries[j].bbox[1])
                 >= C8_Dist(tb, page_out.image_entries[i].bbox[1])
          /\ j < i => C8_Dist(tb, page_out.image_entries[j].bbox[1])
                          > C8_Dist(tb, page_out.image_entries[i].bbox[1])

\* C8: a row with a usable position box gets the path of the image, among
\* the images with a usable box, whose center is nearest to the center of
\* the row's box, the first such image in extraction order on a tie; an
\* image without a usable box is never chosen, and the path stays unset when
\* no image has a usable box.
C8_NearestUsableImage ==
    PageRan =>
        \A k \in DOMAIN page_out.boxed :
            page_out.boxed[k].text_bbox # <<0, 0, 0, 0>> =>
                IF C8_Usable = {}
                THEN page_out.page_rows[k].image_path = <<>>
                ELSE \E i \in C8_Usable :
                        /\ C8_FirstNearest(page_out.boxed[k].text_bbox, i)
                        /\ page_out.page_rows[k].image_path =
                               <<page_out.image_entries[i].path>>

\* C8 witness: a row with a usable box at the same distance from two usable
\* images of different paths has the path of the first.
C8_Witness ==
    /\ PageRan
    /\ \E k \in DOMAIN page_out.boxed, i, j \in C8_Usable :
          /\ i < j
          /\ page_out.boxed[k].text_bbox # <<0, 0, 0, 0>>
          /\ C8_Dist(page_out.boxed[k].text_bbox, page_out.image_entries[i].bbox[1])
                 = C8_Dist(page_out.boxed[k].text_bbox, page_out.image_entries[j].bbox[1])
          /\ page_out.image_entries[i].path # page_out.image_entries[j].path
          /\ page_out.page_rows[k].image_path = <<page_out.image_entries[i].path>>

\* the blocks the iteration works on (lines 152-157)
C11_Blocks == IF page_in.dict_ok THEN page_in.blocks ELSE <<>>

\* the image blocks with a reference, whose extraction succeeds / fails
C11_OkBlocks ==
    SelectSeq(C11_Blocks, LAMBDA b : b.type = 1 /\ b.image # <<>> /\ b.extract_ok)
C11_FailedBlocks ==
    SelectSeq(C11_Blocks, LAMBDA b : b.type = 1 /\ b.image # <<>> /\ ~b.extract_ok)

\* the positions in the list of page.get_images whose extraction succeeds / fails
C11_OkListed ==
    SelectSeq([i \in DOMAIN page_in.listed |-> i], LAMBDA i : page_in.listed[i].extract_ok)
C11_FailedListed ==
    SelectSeq([i \in DOMAIN page_in.listed |-> i], LAMBDA i : ~page_in.listed[i].extract_ok)

\* the embedded images (xrefs) on which an extraction attempt of the page failed
C11_FailedXrefs ==
    {C11_FailedBlocks[i].image[1] : i \in DOMAIN C11_FailedBlocks}
    \cup (IF page_out.fallback
          THEN {page_in.listed[C11_FailedListed[i]].xref : i \in DOMAIN C11_FailedListed}
          ELSE {})

\* the page with every image extraction succeeding
C11_AllExtracted ==
    [page_in EXCEPT
        !.blocks = [i \in DOMAIN page_in.blocks |->
                       IF page_in.blocks[i].type = 1
                       THEN [page_in.blocks[i] EXCEPT !.extract_ok = TRUE]
                       ELSE page_in.blocks[i]],
        !.listed = [i \in DOMAIN page_in.listed |->
                       [page_in.listed[i] EXCEPT !.extract_ok = TRUE]]]

\* rows without their image
C11_Texts(rs) == [i \in DOMAIN rs |-> [rs[i] EXCEPT !.image_path = <<>>]]

\* C11 as written: an image on which an extraction failed is not among the
\* images recorded for the page.
C11_FailedImageNeverRecorded ==
    PageRan =>
        \A i \in DOMAIN page_out.image_entries :
            page_out.image_entries[i].xref \notin C11_FailedXrefs

\* What does hold of a failed extraction: it leaves no entry for that attempt
\* and nothing else changes on the path taken: on the structural path the entries are those of the
\* image blocks whose extraction succeeded, in block order; on the
\* enumeration path (no structural entry) they are those of the listed images
\* whose extraction succeeded, in list order and named by their list
\* position; the rows parsed from the text are those of the same page with
\* no failure; and the iteration raises only when a call on the page itself
\* (load_page, get_images, get_text) raises.
C11_FailureSkipsThatAttemptOnly ==
    page_done =>
        /\ page_out.raised =>
              (~page_in.load_ok \/ ~page_in.listed_ok \/ ~page_in.plain_ok)
        /\ (~page_out.raised /\ ~page_out.fallback) =>
              /\ Len(page_out.image_entries) = Len(C11_OkBlocks)
              /\ \A i \in DOMAIN C11_OkBlocks :
                    /\ page_out.image_entries[i].xref = C11_OkBlocks[i].image[1]
                    /\ page_out.image_entries[i].path.tag = "x"
                    /\ page_out.image_entries[i].path.id = C11_OkBlocks[i].image[1]
        /\ (~page_out.raised /\ page_out.fallback) =>
              /\ C11_OkBlocks = <<>>
              /\ Len(page_out.image_entries) = Len(C11_OkListed)
              /\ \A i \in DOMAIN C11_OkListed :
                    /\ page_out.image_entries[i].xref = page_in.listed[C11_OkListed[i]].xref
                    /\ page_out.image_entries[i].path.tag = ""
                    /\ page_out.image_entries[i].path.id = C11_OkListed[i]
        /\ ~page_out.raised =>
              C11_Texts(page_out.page_rows)
                  = C11_Texts(PageStep(C11_AllExtracted, PageFolder, 1, PagePdf).page_rows)

\* On a page where the extraction of one image block failed,
\* another image block is recorded and rows were parsed from the text.
C11_FailureAmongImages ==
    /\ PageRan
    /\ ~page_out.fallback
    /\ C11_FailedBlocks # <<>>
    /\ page_out.image_entries # <<>>
    /\ page_out.page_rows # <<>>

\* the image regions the structural path finds on the page: the blocks of type 1
C12_ImageRegions == SelectSeq(C11_Blocks, LAMBDA b : b.type = 1)

\* C12: on a page that could be loaded, the enumeration without positions is
\* performed if and only if the structural path found no image region on the
\* page; a page with an image region never takes it.
C12_FallbackIffNoImageRegions ==
    (page_done /\ page_in.load_ok) =>
        (page_out.fallback <=> C12_ImageRegions = <<>>)

-----------------------------------------------------------------------------
(* Properties of the price and sku detection (SpecParse)                   *)

\* the line of a one-line segment
C13_Line == IF SegLines # <<>> THEN SegLines[1] ELSE <<>>

\* where the first digit of the line is, 0 when it has none
C13_First == FirstTrue([i \in DOMAIN C13_Line |-> C13_Line[i] \in Digits])

\* the line ends with a number written with digits only, the only number on
\* the line
C13_PlainNumber ==
    /\ C13_First > 0
    /\ \A i \in C13_First..Len(C13_Line) : C13_Line[i] \in Digits

\* the value of that number: all of its digits
C13_PlainValue ==
    [n |-> DigitsVal(SubSeq(C13_Line, C13_First, Len(C13_Line))), e |-> 0]

\* the examples: "Rs. 1,299.50" and the rupee sign followed by 499
C13_Examples ==
    /\ (parsed /\ text = <<"R", "s", ".", " ", "1", ",", "2", "9", "9", ".", "5", "0">>) =>
          /\ Len(rows) = 1
          /\ rows[1].price = <<[n |-> 12995, e |-> 1]>>
          /\ rows[1].currency = <<<<"R", "S">>>>
    /\ (parsed /\ text = <<Rupee, "4", "9", "9">>) =>
          /\ Len(rows) = 1
          /\ rows[1].price = <<[n |-> 499, e |-> 0]>>
          /\ rows[1].currency = <<<<Rupee>>>>

\* C13: the price of a price line is the value of the whole number written on
\* the line, the currency the marker before it in upper case without periods:
\* the two examples hold, and a one-line segment ending with its only number,
\* written with digits only (any number of digits), gives one row with the
\* value of all the digits.
C13_PriceIsWholeNumber ==
    /\ C13_Examples
    /\ (parsed /\ Len(SegLines) = 1 /\ C13_PlainNumber) =>
          /\ Len(rows) = 1
          /\ rows[1].price = <<C13_PlainValue>>

\* What does hold: the examples, and the value of all the digits when the
\* number has at most 3 digits.
C13_UpToThreeDigits ==
    /\ C13_Examples
    /\ (parsed /\ Len(SegLines) = 1 /\ C13_PlainNumber
            /\ Len(C13_Line) - C13_First + 1 <= 3) =>
          /\ Len(rows) = 1
          /\ rows[1].price = <<C13_PlainValue>>

\* both examples and a short number have been parsed
C13_ShortNumberParsed ==
    parsed /\ Len(SegLines) = 1 /\ C13_PlainNumber /\ Len(C13_Line) - C13_First + 1 <= 3

\* the characters of a token: the first, and the following ones
C14_First == Letters \cup Digits
C14_Rest == Letters \cup Digits \cup {"-", "_", "/"}

\* a token of at least 3 characters starts at index k of ln
C14_TokenAt(ln, k) ==
    At(ln, k) \in C14_First /\ At(ln, k + 1) \in C14_Rest /\ At(ln, k + 2) \in C14_Rest

\* the token starting at k, as long as it goes
C14_Token(ln, k) ==
    SubSeq(ln, k, CHOOSE e \in k..Len(ln) :
                      /\ \A m \in (k + 1)..e : ln[m] \in C14_Rest
                      /\ At(ln, e + 1) \notin C14_Rest)

\* at index i of ln stands a label (in any case), then any number of colons,
\* hyphens and blanks, then a token, which starts at k
C14_LabelledAt(ln, i, k) ==
    \E n \in DOMAIN SkuLabels :
        /\ MatchesAtCI(ln, i, SkuLabels[n])
        /\ k >= i + Len(SkuLabels[n])
        /\ \A m \in (i + Len(SkuLabels[n]))..(k - 1) : ln[m] \in {":", "-", " ", "\t"}
        /\ C14_TokenAt(ln, k)

C14_Labelled(ln) == \E i, k \in DOMAIN ln : C14_LabelledAt(ln, i, k)

\* the token after the leftmost label of ln that is followed by a token
C14_LabelledToken(ln) ==
    C14_Token(ln, CHOOSE k \in DOMAIN ln :
                      \E i \in DOMAIN ln :
                          /\ C14_LabelledAt(ln, i, k)
                          /\ \A j \in 1..(i - 1), h \in DOMAIN ln : ~C14_LabelledAt(ln, j, h))

\* the first 5 lines that hold a token, with or without a label / a label
\* followed by a token
C14_WithToken ==
    {j \in 1..Min(5, Len(SegLines)) : \E k \in DOMAIN SegLines[j] : C14_TokenAt(SegLines[j], k)}
C14_WithLabel == {j \in 1..Min(5, Len(SegLines)) : C14_Labelled(SegLines[j])}

\* C14 as written, the label being optional: the sku is unset exactly when
\* none of the first 5 lines holds a token, and every row has the same sku.
C14_LabelOptional ==
    (parsed /\ rows # <<>>) =>
        /\ rows[1].sku = <<>> <=> C14_WithToken = {}
        /\ \A r \in DOMAIN rows : rows[r].sku = rows[1].sku

\* C14, amended: the label is required. The sku of every row of the segment,
\* the fallback row included, is the token after the label on the first of
\* the first 5 lines that holds a label followed by a token, and it is unset
\* exactly when none of the first 5 lines does.
C14_LabelRequired ==
    (parsed /\ rows # <<>>) =>
        \A r \in DOMAIN rows :
            IF C14_WithLabel = {}
            THEN rows[r].sku = <<>>
            ELSE rows[r].sku =
                   <<C14_LabelledToken(SegLines[CHOOSE j \in C14_WithLabel :
                                                    \A h \in C14_WithLabel : j <= h])>>

\* C14 witness: two of the first 5 lines hold a label with different tokens
\* and the rows have the sku of the first.
C14_Witness ==
    /\ parsed
    /\ rows # <<>>
    /\ \E j, h \in C14_WithLabel :
          /\ j < h
          /\ \A g \in C14_WithLabel : j <= g
          /\ C14_LabelledToken(SegLines[j]) # C14_LabelledToken(SegLines[h])
          /\ rows[1].sku = <<C14_LabelledToken(SegLines[j])>>

-----------------------------------------------------------------------------
(* Properties of the table files of a run (Spec)                           *)

\* the documents of the run reported with a table
C15_Created ==
    {d \in DOMAIN pdf_files :
        \E i \in DOMAIN printed :
            printed[i].kind = "created" /\ printed[i].doc = <<pdf_files[d]>>}

\* C15: the file names of a run being distinct, no two documents write their
\* table to the same path, and after the run every document reported with a
\* table has a table file of its own, holding its rows.
C15_OwnTablePerDocument ==
    /\ \A i, j \in DOMAIN attempts :
          (attempts[i].doc # attempts[j].doc /\ attempts[i].result = "ok"
               /\ attempts[j].result = "ok")
              => attempts[i].path # attempts[j].path
    /\ pc = "done" =>
          \A d \in C15_Created : \E f \in files : f.doc = d

====
